---- MODULE Spec2Model ----
(***************************************************************************)
(* Falcon-AI.  The backend (src/backend/server.js): the HTTP handlers of   *)
(* the Express server as a state machine; every request is a record that   *)
(* moves through the await points of its handler, and the user store, the  *)
(* clock and the upstream calls made are the shared state.  The client     *)
(* (src/unnamed/part_000): the state of the React App component, the       *)
(* browser's localStorage and the fetches the component is waiting for.    *)
(***************************************************************************)
EXTENDS Integers, Sequences, FiniteSets, TLC

VARIABLES
    users,         \* the User collection, in insertion order
    now,           \* the server clock, in weeks
    reqs,          \* every request received so far, with its handler's position
    env,           \* process.env of the server
    app,           \* the useState cells of the App component
    localStorage,  \* the browser's localStorage: key -> parsed JSON value
    fetches,       \* the fetches of the component that have not settled yet
    clock          \* Date.now() of the browser

vars == <<users, now, reqs, env, app, localStorage, fetches, clock>>

\* what the server's handlers never touch, and what the component never touches
browser == <<app, localStorage, fetches, clock>>
backend == <<users, now, reqs, env>>

----------------------------------------------------------------------------
(* Bounds of the model *)

MaxReqs == 2    \* requests received in one run
MaxTime == 2    \* how far the clock runs
MaxChats == 2     \* chats of one collection
MaxSent == 2      \* messages of the user in the collection
MaxSubmits == 1   \* submissions of the auth form in flight
MaxClock == 1     \* how far the browser's clock runs, in milliseconds

----------------------------------------------------------------------------
(* JSON values of request bodies and headers *)

\* a field the JSON body does not carry
Undefined == "<undefined>"

\* JavaScript's !v for the string-or-undefined fields of the bodies
Falsy(v) == v \in {Undefined, ""}

IsString(v) == v # Undefined

\* String.prototype.trim on the strings of the model
Trim(s) == IF s = "  " THEN "" ELSE s

Names     == {"ann"}
Emails    == {"a@x.io", "b@x.io"}
Passwords == {"pw1", "pw2"}

----------------------------------------------------------------------------
(* bcryptjs: hash and compare *)

BcryptCost == 10

\* bcrypt draws a fresh random salt on every hash: the n-th hash gets salt n
genSalt(n) == n

\* the digest bcrypt derives from a password under a salt and a cost
Digest(password, salt, cost) == <<cost, salt, password>>

\* bcrypt.hash(password, 10): the stored string carries cost, salt and digest
bcryptHash(password, salt) ==
    [cost |-> BcryptCost, salt |-> salt,
     digest |-> Digest(password, salt, BcryptCost)]

\* bcrypt.compare(password, hash) rejects its promise on a non-string argument
bcryptCompareThrows(password) == ~IsString(password)

bcryptCompare_NoSalt(password, hash) ==
    hash.digest = Digest(password, 0, hash.cost)

\* bcrypt.compare(password, hash): re-derive the digest with the hash's salt
bcryptCompare(password, hash) ==
    hash.digest = Digest(password, hash.salt, hash.cost)

----------------------------------------------------------------------------
(* jsonwebtoken: sign and verify *)

JWT_SECRET == "server-secret"
AttackerKey == "attacker-key"

\* process.env.JWT_EXPIRES_IN || "7d", in weeks
JWT_EXPIRES_IN == 1

Payload(tok) == <<tok.id, tok.email, tok.iat, tok.exp>>

\* the HMAC of a payload under a key
Signature(payload, key) == [key |-> key, over |-> payload]

\* jwt.sign({id, email}, key, {expiresIn}) at time t
jwtSign(id, email, key, t) ==
    LET p == [id |-> id, email |-> email, iat |-> t, exp |-> t + JWT_EXPIRES_IN]
    IN  [id |-> p.id, email |-> p.email, iat |-> p.iat, exp |-> p.exp,
         sig |-> Signature(Payload(p), key)]

jwtVerify_NoExpiryCheck(tok, key, t) ==
    tok.sig = Signature(Payload(tok), key)

\* jwt.verify(token, key) at time t: TRUE when it returns, FALSE when it throws
jwtVerify(tok, key, t) ==
    /\ tok.sig = Signature(Payload(tok), key)
    /\ t < tok.exp

----------------------------------------------------------------------------
(* Strings the code inspects character by character: sequences of characters *)

startsWith(s, p) == Len(s) >= Len(p) /\ SubSeq(s, 1, Len(p)) = p

endsWith(s, p) == Len(s) >= Len(p) /\ SubSeq(s, Len(s) - Len(p) + 1, Len(s)) = p

\* Array.prototype.includes
includes(list, v) == \E k \in 1..Len(list) : list[k] = v

\* String.prototype.indexOf, counting from 1; 0 when p does not occur in s
indexOf(s, p) ==
    LET at == {k \in 1..(Len(s) - Len(p) + 1) : SubSeq(s, k, k + Len(p) - 1) = p}
    IN  IF at = {} THEN 0 ELSE CHOOSE k \in at : \A j \in at : k <= j

----------------------------------------------------------------------------
(* The CORS middleware *)

\* "https://falconai1.netlify.app"
NetlifySite ==
    <<"h", "t", "t", "p", "s", ":", "/", "/", "f", "a", "l", "c", "o", "n",
      "a", "i", "1", ".", "n", "e", "t", "l", "i", "f", "y", ".", "a", "p",
      "p">>

\* "http://localhost:5173"
ViteDefault ==
    <<"h", "t", "t", "p", ":", "/", "/", "l", "o", "c", "a", "l", "h", "o",
      "s", "t", ":", "5", "1", "7", "3">>

\* "http://localhost:5174"
VitePort ==
    <<"h", "t", "t", "p", ":", "/", "/", "l", "o", "c", "a", "l", "h", "o",
      "s", "t", ":", "5", "1", "7", "4">>

\* "https://falcon-ai--wikumsurindu542.replit.app"
ReplitSite ==
    <<"h", "t", "t", "p", "s", ":", "/", "/", "f", "a", "l", "c", "o", "n",
      "-", "a", "i", "-", "-", "w", "i", "k", "u", "m", "s", "u", "r", "i",
      "n", "d", "u", "5", "4", "2", ".", "r", "e", "p", "l", "i", "t", ".",
      "a", "p", "p">>

\* "http://localhost"
LocalhostPrefix ==
    <<"h", "t", "t", "p", ":", "/", "/", "l", "o", "c", "a", "l", "h", "o",
      "s", "t">>

\* ".netlify.app"
NetlifySuffix ==
    <<".", "n", "e", "t", "l", "i", "f", "y", ".", "a", "p", "p">>

\* "http://localhost:3000": a localhost origin that is not listed
OtherLocalhost ==
    <<"h", "t", "t", "p", ":", "/", "/", "l", "o", "c", "a", "l", "h", "o",
      "s", "t", ":", "3", "0", "0", "0">>

\* "https://preview.netlify.app": a Netlify host that is not listed
NetlifyPreview ==
    <<"h", "t", "t", "p", "s", ":", "/", "/", "p", "r", "e", "v", "i", "e",
      "w", ".", "n", "e", "t", "l", "i", "f", "y", ".", "a", "p", "p">>

\* "http://localhost.example.com": the host is localhost.example.com
LocalhostLookalike ==
    <<"h", "t", "t", "p", ":", "/", "/", "l", "o", "c", "a", "l", "h", "o",
      "s", "t", ".", "e", "x", "a", "m", "p", "l", "e", ".", "c", "o", "m">>

\* "https://example.com"
ForeignSite ==
    <<"h", "t", "t", "p", "s", ":", "/", "/", "e", "x", "a", "m", "p", "l",
      "e", ".", "c", "o", "m">>

allowedOrigins == <<NetlifySite, ViteDefault, VitePort, ReplitSite>>

\* no Origin header: req.headers.origin is undefined
NoOrigin == <<>>

Origins ==
    {NoOrigin, NetlifySite, ViteDefault, ReplitSite, OtherLocalhost,
     NetlifyPreview, LocalhostLookalike, ForeignSite}

isExplicitAllowed(origin) == includes(allowedOrigins, origin)

isLocalhost(origin) == startsWith(origin, LocalhostPrefix)

isNetlify(origin) == endsWith(origin, NetlifySuffix)

\* the value of the Access-Control-Allow-Origin header the middleware sets on
\* the response, NoOrigin when it sets none; Access-Control-Allow-Headers and
\* Access-Control-Allow-Methods are set together with it
corsMiddleware(origin) ==
    IF origin # NoOrigin
       /\ (isExplicitAllowed(origin) \/ isLocalhost(origin) \/ isNetlify(origin))
    THEN origin
    ELSE NoOrigin

----------------------------------------------------------------------------
(* Requests and responses *)

NullTok == [id |-> 0, email |-> "", iat |-> 0, exp |-> 0,
            sig |-> Signature(<<0, "", 0, 0>>, "")]

\* the Authorization header: absent, another scheme, or "Bearer " + credential;
\* the credential is the empty string, a string that is no JWT, or a JWT
NoHeader      == [scheme |-> "",       kind |-> "empty",   tok |-> NullTok]
BasicHeader   == [scheme |-> "Basic",  kind |-> "garbage", tok |-> NullTok]
BearerEmpty   == [scheme |-> "Bearer", kind |-> "empty",   tok |-> NullTok]
BearerGarbage == [scheme |-> "Bearer", kind |-> "garbage", tok |-> NullTok]
Bearer(tok)   == [scheme |-> "Bearer", kind |-> "jwt",     tok |-> tok]

\* the messages field of a chat body: absent, an array, or a value of another type
NoMessages    == [kind |-> "undefined", items |-> <<>>]
ArrayOf(items) == [kind |-> "array", items |-> items]
NotAnArray    == [kind |-> "string", items |-> <<>>]

EmptyBody ==
    [name |-> Undefined, email |-> Undefined, password |-> Undefined,
     message |-> Undefined, messages |-> NoMessages, provider |-> Undefined,
     prompt |-> Undefined, city |-> Undefined]

\* no response sent yet
NoResp ==
    [status |-> 0, error |-> "", reply |-> "", provider |-> "",
     user |-> <<>>, token |-> <<>>, imageBase64 |-> "", city |-> ""]

ErrorResp(status, error) == [NoResp EXCEPT !.status = status, !.error = error]

\* res.json({user: {id, name, email}, token})
AuthResp(user, token) ==
    [NoResp EXCEPT !.status = 200,
                   !.user = <<[id |-> user.id, name |-> user.name, email |-> user.email]>>,
                   !.token = <<token>>]

\* authAt: the clock when the request presented its Authorization header
\* (0 on the routes that take none); origin: its Origin header, absent unless
\* the action says otherwise; allowOrigin: the header the CORS middleware set
NewReq(route, hdr, body, t) ==
    [route |-> route, hdr |-> hdr, body |-> body, authAt |-> t,
     origin |-> NoOrigin, allowOrigin |-> corsMiddleware(NoOrigin),
     pc |-> "start", found |-> <<>>, saw |-> 0, hashed |-> <<>>,
     chatMessages |-> <<>>, usedProvider |-> "", calls |-> <<>>, outcome |-> <<>>,
     resp |-> NoResp]

ReqIds == 1..Len(reqs)

\* tokens the server has handed out in a response
Issued == {reqs[i].resp.token[1] : i \in {j \in ReqIds : reqs[j].resp.token # <<>>}}

\* a token whose expiry was edited after signing
Tampered(tok) == [tok EXCEPT !.exp = tok.exp + JWT_EXPIRES_IN]

\* credentials a client can present
ClientTokens ==
    Issued \cup {Tampered(t) : t \in Issued}
           \cup {jwtSign(1, "a@x.io", AttackerKey, 0)}

Headers ==
    {NoHeader, BasicHeader, BearerEmpty, BearerGarbage}
        \cup {Bearer(t) : t \in ClientTokens}

----------------------------------------------------------------------------
(* User store (models/User.js through mongoose) *)

\* User.findOne({email}): the first record with that email, or none
findOne(email) ==
    LET hits == {i \in 1..Len(users) : users[i].email = email}
    IN  IF hits = {} THEN <<>>
        ELSE <<users[CHOOSE i \in hits : \A j \in hits : i <= j]>>

\* User.create({name, email, password}): insert a record under a fresh _id;
\* the insert itself does not look for a record with the same email
create(name, email, hashed) ==
    Append(users, [id |-> Len(users) + 1, name |-> name, email |-> email,
                   password |-> hashed])

----------------------------------------------------------------------------
(* authMiddleware *)

\* the token the middleware extracts: <<>> for null
bearerToken(hdr) ==
    IF hdr.scheme = "Bearer" THEN <<[kind |-> hdr.kind, tok |-> hdr.tok]>> ELSE <<>>

authMiddleware_SkipVerify(hdr, t) ==
    LET token == bearerToken(hdr)
    IN  IF token = <<>> \/ token[1].kind = "empty"
        THEN ErrorResp(401, "No token, authorization denied")
        ELSE NoResp

\* the response the middleware sends, or NoResp when it calls next()
authMiddleware(hdr, t) ==
    LET token == bearerToken(hdr)
    IN  IF token = <<>> \/ token[1].kind = "empty"
        THEN ErrorResp(401, "No token, authorization denied")
        ELSE IF token[1].kind = "jwt" /\ jwtVerify(token[1].tok, JWT_SECRET, t)
        THEN NoResp
        ELSE ErrorResp(401, "Token is not valid")

Receive(r) ==
    /\ Len(reqs) < MaxReqs
    /\ reqs' = Append(reqs, r)
    /\ UNCHANGED <<env, browser>>

Update(i, r) ==
    /\ reqs' = [reqs EXCEPT ![i] = r]
    /\ UNCHANGED <<env, browser>>

----------------------------------------------------------------------------
(* POST /api/auth/register *)

\* complete bodies, and bodies with one field absent or empty
RegisterBodies ==
    LET full == {[EmptyBody EXCEPT !.name = n, !.email = e, !.password = p] :
                    n \in Names, e \in Emails, p \in Passwords}
        one  == CHOOSE b \in full : TRUE
    IN  full \cup {[one EXCEPT !.name = Undefined], [one EXCEPT !.email = Undefined],
                   [one EXCEPT !.password = Undefined], [one EXCEPT !.password = ""]}

\* the handler up to its first await
RegisterStart(body) ==
    /\ Receive(LET r == NewReq("register", NoHeader, body, 0)
               IN  IF Falsy(body.name) \/ Falsy(body.email) \/ Falsy(body.password)
                   THEN [r EXCEPT !.pc = "done",
                                  !.resp = ErrorResp(400, "All fields are required")]
                   ELSE [r EXCEPT !.pc = "findOne"])
    /\ UNCHANGED <<users, now>>

RegisterFindOne_NoCheck(i) ==
    /\ reqs[i].route = "register" /\ reqs[i].pc = "findOne"
    /\ Update(i, [reqs[i] EXCEPT !.saw = Len(users), !.pc = "hash"])
    /\ UNCHANGED <<users, now>>

\* await User.findOne({email})
RegisterFindOne(i) ==
    /\ reqs[i].route = "register" /\ reqs[i].pc = "findOne"
    /\ LET existing == findOne(reqs[i].body.email)
           r == [reqs[i] EXCEPT !.saw = Len(users)]
       IN  IF existing # <<>>
           THEN Update(i, [r EXCEPT !.pc = "done",
                                    !.resp = ErrorResp(400, "Email already in use")])
           ELSE Update(i, [r EXCEPT !.pc = "hash"])
    /\ UNCHANGED <<users, now>>

\* await bcrypt.hash(password, 10)
RegisterHash(i) ==
    /\ reqs[i].route = "register" /\ reqs[i].pc = "hash"
    /\ Update(i, [reqs[i] EXCEPT !.pc = "create",
            !.hashed = <<bcryptHash(reqs[i].body.password, genSalt(i))>>])
    /\ UNCHANGED <<users, now>>

\* await User.create(...), jwt.sign(...), res.json(...)
RegisterCreate(i) ==
    /\ reqs[i].route = "register" /\ reqs[i].pc = "create"
    /\ users' = create(reqs[i].body.name, reqs[i].body.email, reqs[i].hashed[1])
    /\ LET user == users'[Len(users')]
           token == jwtSign(user.id, user.email, JWT_SECRET, now)
       IN  Update(i, [reqs[i] EXCEPT !.pc = "done", !.resp = AuthResp(user, token)])
    /\ UNCHANGED now

----------------------------------------------------------------------------
(* POST /api/auth/login *)

\* every email with every password or none, and a body without email
LoginBodies ==
    {[EmptyBody EXCEPT !.email = e, !.password = p] :
        e \in Emails, p \in Passwords \cup {Undefined}}
        \cup {[EmptyBody EXCEPT !.password = CHOOSE p \in Passwords : TRUE]}

LoginStart(body) ==
    /\ Receive([NewReq("login", NoHeader, body, 0) EXCEPT !.pc = "findOne"])
    /\ UNCHANGED <<users, now>>

\* await User.findOne({email})
LoginFindOne(i) ==
    /\ reqs[i].route = "login" /\ reqs[i].pc = "findOne"
    /\ LET user == findOne(reqs[i].body.email)
           r == [reqs[i] EXCEPT !.saw = Len(users), !.found = user]
       IN  IF user = <<>>
           THEN Update(i, [r EXCEPT !.pc = "done",
                                    !.resp = ErrorResp(400, "Invalid email or password")])
           ELSE Update(i, [r EXCEPT !.pc = "compare"])
    /\ UNCHANGED <<users, now>>

\* await bcrypt.compare(password, user.password), jwt.sign(...), res.json(...)
LoginCompare(i) ==
    /\ reqs[i].route = "login" /\ reqs[i].pc = "compare"
    /\ LET user == reqs[i].found[1]
           password == reqs[i].body.password
           resp == IF bcryptCompareThrows(password)
                   THEN ErrorResp(500, "Server error")
                   ELSE IF ~bcryptCompare(password, user.password)
                   THEN ErrorResp(400, "Invalid email or password")
                   ELSE AuthResp(user, jwtSign(user.id, user.email, JWT_SECRET, now))
       IN  Update(i, [reqs[i] EXCEPT !.pc = "done", !.resp = resp])
    /\ UNCHANGED <<users, now>>

----------------------------------------------------------------------------
(* Upstream providers: what a call can come back with *)

\* kind "throw": the SDK call or fetch rejects, with an error message
\* kind "completion": a chat-completion object, texts = the contents of its choices
\* kind "text": a Gemini result, texts = <<response.text()>>
\* kind "http": a fetch response; ok = its status is 2xx, parses = its body is JSON,
\*              texts = the generated_text of the elements when the body is an
\*              array, raw = JSON.stringify of the body
Outcome(kind, ok, parses, texts, raw, message) ==
    [kind |-> kind, ok |-> ok, parses |-> parses, texts |-> texts, raw |-> raw,
     message |-> message]

Throws(message) == Outcome("throw", FALSE, FALSE, <<>>, "", message)

CompletionOutcomes ==
    {Throws("429 rate limit"),
     Outcome("completion", TRUE, TRUE, <<>>, "", ""),
     Outcome("completion", TRUE, TRUE, <<"">>, "", ""),
     Outcome("completion", TRUE, TRUE, <<"hello">>, "", "")}

GeminiOutcomes ==
    {Throws("quota exceeded"), Outcome("text", TRUE, TRUE, <<"hello">>, "", "")}

HfChatOutcomes ==
    {Throws(""),
     Outcome("http", TRUE, TRUE, <<"hello">>, "[{\"generated_text\":\"hello\"}]", ""),
     Outcome("http", FALSE, TRUE, <<>>, "{\"error\":\"Model is loading\"}", ""),
     Outcome("http", FALSE, FALSE, <<>>, "", "Unexpected token < in JSON")}

HfImageOutcomes ==
    {Throws("socket hang up"),
     Outcome("http", TRUE, FALSE, <<>>, "", ""),
     Outcome("http", FALSE, TRUE, <<>>, "{\"error\":\"Model is loading\"}", "")}

Outcomes(provider) ==
    CASE provider \in {"groq", "deepseek"} -> CompletionOutcomes
      [] provider = "gemini"               -> GeminiOutcomes
      [] provider = "huggingface"          -> HfChatOutcomes
      [] OTHER                             -> HfImageOutcomes

\* the upstream did not produce a result
UpstreamFailed(o) ==
    \/ o.kind = "throw"
    \/ o.kind = "completion" /\ o.texts = <<>>
    \/ o.kind = "http" /\ ~o.ok

----------------------------------------------------------------------------
(* POST /api/chat (protected) *)

DefaultSystemPrompt ==
    [role |-> "system", content |-> "You are a friendly AI assistant"]

History == <<[role |-> "system", content |-> "mode prompt"],
             [role |-> "user", content |-> "hi"]>>

ProviderIds ==
    {Undefined, "groq", "gemini", "deepseek", "huggingface", "unknown-provider"}

\* every message/messages combination, and every provider id
ChatBodies ==
    {[EmptyBody EXCEPT !.message = m, !.messages = ms] :
        m \in {Undefined, "", "hi"},
        ms \in {NoMessages, ArrayOf(<<>>), ArrayOf(History), NotAnArray}}
    \cup {[EmptyBody EXCEPT !.messages = ArrayOf(History), !.provider = p] :
            p \in ProviderIds}

\* const { provider = "groq" } = req.body
providerOf(body) == IF body.provider = Undefined THEN "groq" ELSE body.provider

isNonEmptyArray(ms) == ms.kind = "array" /\ Len(ms.items) > 0

chatInvalid_MessageOnly(body) == Falsy(body.message)

\* !message && (!Array.isArray(messages) || messages.length === 0)
chatInvalid(body) == Falsy(body.message) /\ ~isNonEmptyArray(body.messages)

\* the message list handed to the provider
chatMessagesOf(body) ==
    IF isNonEmptyArray(body.messages)
    THEN body.messages.items
    ELSE <<DefaultSystemPrompt, [role |-> "user", content |-> body.message]>>

usedProviderOf_Echo(provider) == provider

\* the branch of the provider chain taken, which is also usedProvider
usedProviderOf(provider) ==
    IF provider \in {"gemini", "deepseek", "huggingface"} THEN provider ELSE "groq"

\* the request each branch sends upstream
upstreamCall(used, msgs) ==
    [provider |-> used,
     format |-> IF used \in {"gemini", "huggingface"} THEN "transcript" ELSE "messages",
     input |-> msgs]

\* aiReply of the branch once the upstream call has returned
chatReply(used, o) ==
    IF used = "huggingface"
    THEN IF o.texts # <<>> /\ ~Falsy(o.texts[1]) THEN o.texts[1] ELSE o.raw
    ELSE IF used = "gemini"
    THEN o.texts[1]
    ELSE IF o.texts # <<>> /\ ~Falsy(o.texts[1]) THEN o.texts[1] ELSE "No reply"

\* the await of the branch throws: the SDK call or fetch rejects, or hfRes.json() does
chatThrows(used, o) == o.kind = "throw" \/ (o.kind = "http" /\ ~o.parses)

\* err.message || "Error contacting AI service"
chatErrorMsg(o) == IF Falsy(o.message) THEN "Error contacting AI service" ELSE o.message

\* authMiddleware and the handler up to the await of the provider call
ChatStart(hdr, body) ==
    /\ Receive(LET r == NewReq("chat", hdr, body, now)
                   denied == authMiddleware(hdr, now)
                   used == usedProviderOf(providerOf(body))
               IN  IF denied # NoResp
                   THEN [r EXCEPT !.pc = "done", !.resp = denied]
                   ELSE IF chatInvalid(body)
                   THEN [r EXCEPT !.pc = "done",
                            !.resp = ErrorResp(400, "Either message or messages is required")]
                   ELSE [r EXCEPT !.pc = "upstream",
                            !.chatMessages = chatMessagesOf(body),
                            !.usedProvider = used,
                            !.calls = <<upstreamCall(used, chatMessagesOf(body))>>])
    /\ UNCHANGED <<users, now>>

\* the provider call settles: res.json({reply, provider}) or the catch block
ChatUpstream(i, o) ==
    /\ reqs[i].route = "chat" /\ reqs[i].pc = "upstream"
    /\ o \in Outcomes(reqs[i].usedProvider)
    /\ LET used == reqs[i].usedProvider
           resp == IF chatThrows(used, o)
                   THEN ErrorResp(500, chatErrorMsg(o))
                   ELSE [NoResp EXCEPT !.status = 200, !.reply = chatReply(used, o),
                                       !.provider = used]
       IN  Update(i, [reqs[i] EXCEPT !.pc = "done", !.outcome = <<o>>, !.resp = resp])
    /\ UNCHANGED <<users, now>>

----------------------------------------------------------------------------
(* POST /api/image/generate *)

Prompts == {Undefined, "  ", "a cat"}

ImageBodies == {[EmptyBody EXCEPT !.prompt = p] : p \in Prompts}

\* !prompt || !prompt.trim()
imageInvalid(body) == Falsy(body.prompt) \/ Falsy(Trim(body.prompt))

\* the handler up to the await of fetch
ImageStart(hdr, body) ==
    /\ Receive(LET r == NewReq("image", hdr, body, now)
               IN  IF imageInvalid(body)
                   THEN [r EXCEPT !.pc = "done",
                                  !.resp = ErrorResp(400, "Prompt is required")]
                   ELSE [r EXCEPT !.pc = "upstream",
                            !.usedProvider = "huggingface-image",
                            !.calls = <<[provider |-> "huggingface-image",
                                         format |-> "prompt",
                                         input |-> <<[role |-> "user",
                                                      content |-> body.prompt]>>]>>])
    /\ UNCHANGED <<users, now>>

\* fetch settles: the base64 image, or one of the two 500 responses
ImageUpstream(i, o) ==
    /\ reqs[i].route = "image" /\ reqs[i].pc = "upstream"
    /\ o \in Outcomes(reqs[i].usedProvider)
    /\ LET resp == IF o.kind = "throw" THEN ErrorResp(500, "Image generation failed")
                   ELSE IF ~o.ok THEN ErrorResp(500, "Image API failed")
                   ELSE [NoResp EXCEPT !.status = 200,
                            !.imageBase64 = "data:image/png;base64,iVBORw0KGgo="]
       IN  Update(i, [reqs[i] EXCEPT !.pc = "done", !.outcome = <<o>>, !.resp = resp])
    /\ UNCHANGED <<users, now>>

----------------------------------------------------------------------------
(* POST /api/tools/weather and the OPTIONS preflight, as a browser on some *)
(* origin sends them                                                        *)

Cities == {Undefined, "", "  ", "Colombo"}

WeatherBodies == {[EmptyBody EXCEPT !.city = c] : c \in Cities}

\* process.env with and without WEATHER_API_KEY
KeyConfigured == [WEATHER_API_KEY |-> "owm-key"]
KeyMissing    == [WEATHER_API_KEY |-> Undefined]

\* what fetch(url) and response.json() can do: kind "throw" is a rejected
\* fetch; otherwise status is response.status, parses says whether the body
\* is JSON, message is data.message and name is data.name
WeatherOutcome(kind, status, parses, message, name) ==
    [kind |-> kind, status |-> status, parses |-> parses,
     message |-> message, name |-> name]

WeatherOutcomes ==
    {WeatherOutcome("http", 200, TRUE, Undefined, "Colombo"),
     WeatherOutcome("http", 404, TRUE, "city not found", Undefined),
     WeatherOutcome("http", 401, TRUE, Undefined, Undefined),
     WeatherOutcome("http", 502, FALSE, Undefined, Undefined),
     WeatherOutcome("throw", 0, FALSE, Undefined, Undefined)}

\* response.ok
responseOk(o) == o.status \in 200..299

\* the request as it leaves the CORS middleware
FromOrigin(r, origin) ==
    [r EXCEPT !.origin = origin, !.allowOrigin = corsMiddleware(origin)]

\* req.method === "OPTIONS": answered by the CORS middleware itself
Preflight(origin) ==
    /\ Receive([FromOrigin(NewReq("options", NoHeader, EmptyBody, 0), origin)
                    EXCEPT !.pc = "done", !.resp = [NoResp EXCEPT !.status = 204]])
    /\ UNCHANGED <<users, now>>

\* !city || !city.trim()
weatherInvalid_NoTrim(body) == Falsy(body.city)

weatherInvalid(body) == Falsy(body.city) \/ Falsy(Trim(body.city))

\* the handler up to the await of fetch
WeatherStart(origin, body) ==
    /\ Receive(LET r == FromOrigin(NewReq("weather", NoHeader, body, 0), origin)
               IN  IF weatherInvalid(body)
                   THEN [r EXCEPT !.pc = "done",
                                  !.resp = ErrorResp(400, "City is required")]
                   ELSE IF Falsy(env.WEATHER_API_KEY)
                   THEN [r EXCEPT !.pc = "done",
                            !.resp = ErrorResp(500, "WEATHER_API_KEY is not set in .env")]
                   ELSE [r EXCEPT !.pc = "upstream",
                            !.usedProvider = "openweathermap",
                            !.calls = <<[provider |-> "openweathermap",
                                         format |-> "query",
                                         input |-> <<[role |-> "q",
                                                      content |-> Trim(body.city)]>>]>>])
    /\ UNCHANGED <<users, now>>

\* fetch and response.json() settle
WeatherUpstream(i, o) ==
    /\ reqs[i].route = "weather" /\ reqs[i].pc = "upstream"
    /\ LET resp == IF o.kind = "throw" \/ ~o.parses
                   THEN ErrorResp(500, "Failed to fetch weather")
                   ELSE IF ~responseOk(o)
                   THEN ErrorResp(o.status, IF Falsy(o.message) THEN "Weather API error"
                                            ELSE o.message)
                   ELSE [NoResp EXCEPT !.status = 200, !.city = o.name]
       IN  Update(i, [reqs[i] EXCEPT !.pc = "done", !.outcome = <<o>>, !.resp = resp])
    /\ UNCHANGED <<users, now>>

----------------------------------------------------------------------------
(* The client: chats of the App component *)

\* "New chat"
NewChatTitle ==
    <<"N", "e", "w", " ", "c", "h", "a", "t">>

\* "Hi! I'm your Falcon AI <U+1F916>. Ask me anything!" (a code point that is not ASCII is one element, named)
Greeting ==
    <<"H", "i", "!", " ", "I", "'", "m", " ", "y", "o", "u", "r", " ", "F",
      "a", "l", "c", "o", "n", " ", "A", "I", " ", "U+1F916", ".", " ", "A",
      "s", "k", " ", "m", "e", " ", "a", "n", "y", "t", "h", "i", "n", "g",
      "!">>

\* null
Null == <<>>

\* a message of a chat; the fields a message does not carry are Undefined
BotMessage(text, provider) ==
    [sender |-> "bot", text |-> text, provider |-> provider, imageUrl |-> Undefined]

UserMessage(text) ==
    [sender |-> "user", text |-> text, provider |-> Undefined, imageUrl |-> Undefined]

\* createNewChat() when Date.now() is t
createNewChat(t) ==
    [id |-> t, title |-> NewChatTitle, createdAt |-> t,
     messages |-> <<BotMessage(Greeting, "groq")>>]

\* the localStorage keys the component uses: "wikum_ai_user", and
\* "wikum_ai_chats_" followed by the email, or by "guest" when there is none;
\* userOrEmail is Null or <<email>>
UserKey == <<"wikum_ai_user">>

getChatsKey(userOrEmail) ==
    IF userOrEmail = Null THEN <<"wikum_ai_chats_", "guest">>
    ELSE <<"wikum_ai_chats_", userOrEmail[1]>>

StorageKeys == {UserKey, getChatsKey(Null)} \cup {getChatsKey(<<e>>) : e \in Emails}

\* localStorage.getItem(key) is Null, or <<value>>
EmptyStorage == [k \in StorageKeys |-> Null]

\* the useState cells as the first render leaves them, at time t.  A cell that
\* can be null holds Null or <<value>>.  dirty: the cells set since the effects
\* last ran ("mount" before they have run at all)
InitialState(t) ==
    [user |-> Null, token |-> Null, chats |-> <<createNewChat(t)>>,
     activeChatId |-> Null, input |-> <<>>, imageFile |-> Null,
     loading |-> FALSE, mode |-> "general", provider |-> "groq",
     dirty |-> {"mount"}]

\* a browser that has just opened the page for the first time
BrowserInit ==
    /\ app = InitialState(0)
    /\ localStorage = EmptyStorage
    /\ fetches = <<>>
    /\ clock = 0

----------------------------------------------------------------------------
(* Text of the messages: sequences of characters *)

\* what the regular expression \s matches, among the characters of the model
isSpace(c) == c \in {" ", "\n", "\t"}

\* String.prototype.trim
trim(s) ==
    LET solid == {k \in 1..Len(s) : ~isSpace(s[k])}
    IN  IF solid = {} THEN <<>>
        ELSE SubSeq(s, CHOOSE k \in solid : \A j \in solid : k <= j,
                       CHOOSE k \in solid : \A j \in solid : k >= j)

\* s.replace(/\s+/g, " "): the first character of every run of whitespace
\* becomes a blank and the others of the run go
collapse(s) ==
    LET marked == [k \in 1..Len(s) |->
                      IF ~isSpace(s[k]) THEN s[k]
                      ELSE IF k > 1 /\ isSpace(s[k - 1]) THEN "dropped"
                      ELSE " "]
    IN  SelectSeq(marked, LAMBDA c : c # "dropped")

\* trimmed.length > 40 ? trimmed.slice(0, 40) + "..." : trimmed
TitleLimit == 40

deriveTitle(userText) ==
    LET trimmed == trim(collapse(userText))
    IN  IF Len(trimmed) > TitleLimit
        THEN SubSeq(trimmed, 1, TitleLimit) \o <<".", ".", ".">>
        ELSE trimmed

----------------------------------------------------------------------------
(* The texts of the model: what the user types, and what the handlers write *)

\* "hi"
Hello ==
    <<"h", "i">>

\* "  New   chat ": collapses and trims to "New chat"
PaddedNewChat ==
    <<" ", " ", "N", "e", "w", " ", " ", " ", "c", "h", "a", "t", " ">>

\* "Explain recursion in simple terms please": 40 characters
FortyChars ==
    <<"E", "x", "p", "l", "a", "i", "n", " ", "r", "e", "c", "u", "r", "s",
      "i", "o", "n", " ", "i", "n", " ", "s", "i", "m", "p", "l", "e", " ",
      "t", "e", "r", "m", "s", " ", "p", "l", "e", "a", "s", "e">>

\* "Explain recursion in simple terms for a beginner please": 55 characters
LongQuestion ==
    <<"E", "x", "p", "l", "a", "i", "n", " ", "r", "e", "c", "u", "r", "s",
      "i", "o", "n", " ", "i", "n", " ", "s", "i", "m", "p", "l", "e", " ",
      "t", "e", "r", "m", "s", " ", "f", "o", "r", " ", "a", " ", "b", "e",
      "g", "i", "n", "n", "e", "r", " ", "p", "l", "e", "a", "s", "e">>

\* "   "
Blank ==
    <<" ", " ", " ">>

\* "\n\n[User has attached an image: ""
AttachedBefore ==
    <<"\n", "\n", "[", "U", "s", "e", "r", " ", "h", "a", "s", " ", "a", "t",
      "t", "a", "c", "h", "e", "d", " ", "a", "n", " ", "i", "m", "a", "g",
      "e", ":", " ", "\"">>

\* "". Backend cannot see the actual pixels.]"
AttachedAfter ==
    <<"\"", ".", " ", "B", "a", "c", "k", "e", "n", "d", " ", "c", "a", "n",
      "n", "o", "t", " ", "s", "e", "e", " ", "t", "h", "e", " ", "a", "c",
      "t", "u", "a", "l", " ", "p", "i", "x", "e", "l", "s", ".", "]">>

\* "cat.png"
FileName ==
    <<"c", "a", "t", ".", "p", "n", "g">>

\* "Sure.": data.reply
ReplyText ==
    <<"S", "u", "r", "e", ".">>

\* "Token is not valid": data.error of a 401
TokenErrorText ==
    <<"T", "o", "k", "e", "n", " ", "i", "s", " ", "n", "o", "t", " ", "v",
      "a", "l", "i", "d">>

\* "Hmm, I couldn't reply."
NoReplyText ==
    <<"H", "m", "m", ",", " ", "I", " ", "c", "o", "u", "l", "d", "n", "'",
      "t", " ", "r", "e", "p", "l", "y", ".">>

\* "<U+26A0 U+FE0F> Error contacting server."
ServerErrorText ==
    <<"U+26A0", "U+FE0F", " ", "E", "r", "r", "o", "r", " ", "c", "o", "n",
      "t", "a", "c", "t", "i", "n", "g", " ", "s", "e", "r", "v", "e", "r",
      ".">>

\* "<U+26A0 U+FE0F> "
Warning ==
    <<"U+26A0", "U+FE0F", " ">>

\* "Image API failed": data.error of a 500
ImageApiErrorText ==
    <<"I", "m", "a", "g", "e", " ", "A", "P", "I", " ", "f", "a", "i", "l",
      "e", "d">>

\* "Image generation failed."
ImageFailedText ==
    <<"I", "m", "a", "g", "e", " ", "g", "e", "n", "e", "r", "a", "t", "i",
      "o", "n", " ", "f", "a", "i", "l", "e", "d", ".">>

\* "<U+26A0 U+FE0F> Error contacting image server."
ImageServerErrorText ==
    <<"U+26A0", "U+FE0F", " ", "E", "r", "r", "o", "r", " ", "c", "o", "n",
      "t", "a", "c", "t", "i", "n", "g", " ", "i", "m", "a", "g", "e", " ",
      "s", "e", "r", "v", "e", "r", ".">>

\* "Here is your generated image <U+1F3A8>"
ImageReadyText ==
    <<"H", "e", "r", "e", " ", "i", "s", " ", "y", "o", "u", "r", " ", "g",
      "e", "n", "e", "r", "a", "t", "e", "d", " ", "i", "m", "a", "g", "e",
      " ", "U+1F3A8">>

\* what the user can have typed into the input box
Inputs == {Blank, PaddedNewChat, FortyChars, LongQuestion}

\* the sessions of one browser, followed with fewer texts
SessionInputs == {Hello}

\* the emails of the accounts, and what the auth routes answer for each
AccountOf(email) ==
    [id |-> IF email = "a@x.io" THEN 1 ELSE 2, name |-> "ann", email |-> email]

TokenOf(email) == <<"jwt", email>>

----------------------------------------------------------------------------
(* React: rendering, setters and effects *)

\* JSON.stringify and JSON.parse of the values the component stores: the
\* stored string, and the value read back from it
stringify(v) == [json |-> v]

parse(str) == str.json

setItem(storage, key, v) == [storage EXCEPT ![key] = <<stringify(v)>>]

removeItem(storage, key) == [storage EXCEPT ![key] = Null]

\* chats.find((c) => c.id === activeChatId) || chats[0] || createNewChat()
activeChat(a) ==
    LET same == {k \in 1..Len(a.chats) :
                    a.activeChatId # Null /\ a.chats[k].id = a.activeChatId[1]}
    IN  IF same # {} THEN a.chats[CHOOSE k \in same : \A j \in same : k <= j]
        ELSE IF Len(a.chats) > 0 THEN a.chats[1]
        ELSE createNewChat(clock)

\* the setters: a set cell whose value an effect depends on is marked dirty;
\* setActiveChatId of the value the cell holds is no update
setUser(a, v) == [a EXCEPT !.user = v, !.dirty = @ \cup {"user"}]

setToken(a, v) == [a EXCEPT !.token = v]

setChats(a, v) == [a EXCEPT !.chats = v, !.dirty = @ \cup {"chats"}]

setActiveChatId(a, v) ==
    IF a.activeChatId = v THEN a
    ELSE [a EXCEPT !.activeChatId = v, !.dirty = @ \cup {"activeChatId"}]

setInput(a, v) == [a EXCEPT !.input = v]

setImageFile(a, v) == [a EXCEPT !.imageFile = v]

setLoading_Dropped(a, v) == a

setLoading(a, v) == [a EXCEPT !.loading = v]

\* the auth screen is rendered instead of the chat screen
authScreen(a) == a.user = Null \/ a.token = Null

\* the effects have run: the component waits for the next event
Settled == app.dirty = {}

----------------------------------------------------------------------------
(* The effects of the component, run after a render in source order.  Each   *)
(* reads the cells as that render saw them; the cells they set make the next *)
(* render.                                                                   *)

RunEffects ==
    /\ ~Settled
    /\ LET a == app
           runs(deps) == "mount" \in a.dirty \/ a.dirty \cap deps # {}
           q0 == [a EXCEPT !.dirty = {}]
           \* if (!activeChatId && chats[0]) setActiveChatId(chats[0].id)
           q1 == IF runs({"activeChatId", "chats"}) /\ a.activeChatId = Null
                    /\ Len(a.chats) > 0
                 THEN setActiveChatId(q0, <<a.chats[1].id>>)
                 ELSE q0
           \* load the user from localStorage on first load
           saved == localStorage[UserKey]
           q2 == IF "mount" \in a.dirty /\ saved # Null
                    /\ parse(saved[1]).user # Null /\ parse(saved[1]).token # Null
                 THEN setToken(setUser(q1, parse(saved[1]).user), parse(saved[1]).token)
                 ELSE q1
           \* load the chats whenever the user changes
           chatsKey == IF a.user = Null THEN getChatsKey(Null)
                       ELSE getChatsKey(<<a.user[1].email>>)
           stored == localStorage[chatsKey]
           q3 == IF ~runs({"user"}) \/ a.user = Null THEN q2
                 ELSE IF stored # Null /\ Len(parse(stored[1])) > 0
                 THEN setActiveChatId(setChats(q2, parse(stored[1])),
                                      <<parse(stored[1])[1].id>>)
                 ELSE LET fresh == createNewChat(clock)
                      IN  setActiveChatId(setChats(q2, <<fresh>>), <<fresh.id>>)
       IN  /\ app' = q3
           \* save the chats whenever chats or user change
           /\ localStorage' = IF runs({"chats", "user"}) /\ a.user # Null
                              THEN setItem(localStorage, chatsKey, a.chats)
                              ELSE localStorage
    /\ UNCHANGED <<fetches, clock, backend>>

----------------------------------------------------------------------------
(* The handlers of the component.  An event is handled when the effects of   *)
(* the last render have run.                                                 *)

\* a fetch in flight, with what its continuation closes over
Fetch(kind, email, chatId, provider, userText) ==
    [kind |-> kind, email |-> email, chatId |-> chatId, provider |-> provider,
     userText |-> userText]

Without(seq, k) == SubSeq(seq, 1, k - 1) \o SubSeq(seq, k + 1, Len(seq))

\* handleAuthSubmit up to the await of fetch, in login or register mode
handleAuthSubmit(email) ==
    /\ Settled /\ authScreen(app)
    /\ Len(SelectSeq(fetches, LAMBDA f : f.kind = "auth")) < MaxSubmits
    /\ fetches' = Append(fetches, Fetch("auth", email, 0, "", <<>>))
    /\ UNCHANGED <<app, localStorage, clock, backend>>

\* handleAuthSubmit from the response on: ok is res.ok; a rejected fetch and a
\* response that is not ok only raise an alert
AuthSettles(k, ok) ==
    /\ Settled
    /\ fetches[k].kind = "auth"
    /\ fetches' = Without(fetches, k)
    /\ IF ~ok THEN UNCHANGED <<app, localStorage>>
       ELSE LET data == [user |-> AccountOf(fetches[k].email),
                         token |-> TokenOf(fetches[k].email)]
                q == setToken(setUser(app, <<data.user>>), <<data.token>>)
                session == setItem(localStorage, UserKey,
                                   [user |-> <<data.user>>, token |-> <<data.token>>])
                chatsKey == getChatsKey(<<data.user.email>>)
                existing == localStorage[chatsKey]
                freshChat == createNewChat(clock)
            IN  IF existing # Null /\ Len(parse(existing[1])) > 0
                THEN /\ app' = setActiveChatId(setChats(q, parse(existing[1])),
                                               <<parse(existing[1])[1].id>>)
                     /\ localStorage' = session
                ELSE /\ app' = setActiveChatId(setChats(q, <<freshChat>>),
                                               <<freshChat.id>>)
                     /\ localStorage' = setItem(session, chatsKey, <<freshChat>>)
    /\ UNCHANGED <<clock, backend>>

handleLogout ==
    /\ Settled /\ ~authScreen(app)
    /\ app' = setToken(setUser(app, Null), Null)
    /\ localStorage' = removeItem(localStorage, UserKey)
    /\ UNCHANGED <<fetches, clock, backend>>

handleNewChat ==
    /\ Settled /\ ~authScreen(app)
    /\ Len(app.chats) < MaxChats
    /\ LET newChat == createNewChat(clock)
       IN  app' = setImageFile(setInput(setActiveChatId(
                      setChats(app, Append(app.chats, newChat)),
                      <<newChat.id>>), <<>>), Null)
    /\ UNCHANGED <<localStorage, fetches, clock, backend>>

\* a click on the k-th chat of the list
selectChat(k) ==
    /\ Settled /\ ~authScreen(app)
    /\ app' = setActiveChatId(app, <<app.chats[k].id>>)
    /\ UNCHANGED <<localStorage, fetches, clock, backend>>

clearCurrentChat ==
    /\ Settled /\ ~authScreen(app)
    /\ LET id == activeChat(app).id
           cleared == [k \in 1..Len(app.chats) |->
                          IF app.chats[k].id = id
                          THEN [app.chats[k] EXCEPT
                                   !.title = NewChatTitle,
                                   !.messages = <<BotMessage(Greeting, "groq")>>]
                          ELSE app.chats[k]]
       IN  app' = setImageFile(setInput(setChats(app, cleared), <<>>), Null)
    /\ UNCHANGED <<localStorage, fetches, clock, backend>>

\* the input box changes
typeInput(text) ==
    /\ Settled /\ ~authScreen(app)
    /\ app.input # text
    /\ app' = setInput(app, text)
    /\ UNCHANGED <<localStorage, fetches, clock, backend>>

handleImageChange ==
    /\ Settled /\ ~authScreen(app)
    /\ app.imageFile = Null
    /\ app' = setImageFile(app, <<FileName>>)
    /\ UNCHANGED <<localStorage, fetches, clock, backend>>

\* a click on a mode button
selectMode(m) ==
    /\ Settled /\ ~authScreen(app)
    /\ app.mode # m
    /\ app' = [app EXCEPT !.mode = m]
    /\ UNCHANGED <<localStorage, fetches, clock, backend>>

\* what a chat or image request can come back with: kind "throw" is a fetch
\* or a res.json() that rejects; otherwise ok is res.ok and the other fields
\* are those of the JSON body (a text the body does not carry is <<>>)
Reply(kind, ok, reply, error, provider, imageBase64) ==
    [kind |-> kind, ok |-> ok, reply |-> reply, error |-> error,
     provider |-> provider, imageBase64 |-> imageBase64]

NoAnswer == Reply("throw", FALSE, <<>>, <<>>, Null, Undefined)

ChatReplies ==
    {Reply("json", TRUE, ReplyText, <<>>, <<"groq">>, Undefined),
     Reply("json", FALSE, <<>>, TokenErrorText, Null, Undefined),
     Reply("json", FALSE, <<>>, <<>>, Null, Undefined),
     NoAnswer}

ImageReplies ==
    {Reply("json", TRUE, <<>>, <<>>, Null, "data:image/png;base64,iVBORw0KGgo="),
     Reply("json", FALSE, <<>>, ImageApiErrorText, Null, Undefined),
     Reply("json", TRUE, <<>>, <<>>, Null, Undefined),
     NoAnswer}

\* the replies followed in the sessions of one browser
SessionReplies == {Reply("json", TRUE, ReplyText, <<>>, <<"groq">>, Undefined)}

\* the replies followed while one session is looked at in detail
ComposeReplies ==
    {Reply("json", TRUE, ReplyText, <<>>, <<"groq">>, Undefined),
     Reply("json", TRUE, <<>>, <<>>, Null, "data:image/png;base64,iVBORw0KGgo=")}

\* prev.map: message appended to every chat whose id is the given one
appendTo_Prepend(chats, id, message) ==
    [k \in 1..Len(chats) |->
        IF chats[k].id = id
        THEN [chats[k] EXCEPT !.messages = <<message>> \o @]
        ELSE chats[k]]

appendTo_ToActiveChat(chats, id, message) ==
    [k \in 1..Len(chats) |->
        IF chats[k].id = activeChat(app).id
        THEN [chats[k] EXCEPT !.messages = Append(@, message)]
        ELSE chats[k]]

appendTo(chats, id, message) ==
    [k \in 1..Len(chats) |->
        IF chats[k].id = id
        THEN [chats[k] EXCEPT !.messages = Append(@, message)]
        ELSE chats[k]]

\* how many messages of the user the chats hold
RECURSIVE sentIn(_)
sentIn(chats) ==
    IF chats = <<>> THEN 0
    ELSE Len(SelectSeq(Head(chats).messages, LAMBDA m : m.sender = "user"))
         + sentIn(Tail(chats))

\* sendMessage up to the await of fetch
sendMessage ==
    /\ Settled /\ ~authScreen(app)
    /\ ~((trim(app.input) = <<>> /\ app.imageFile = Null) \/ app.loading)
    /\ sentIn(app.chats) < MaxSent
    /\ LET id == activeChat(app).id
           userText == trim(app.input) \o
                       (IF app.imageFile # Null
                        THEN AttachedBefore \o app.imageFile[1] \o AttachedAfter
                        ELSE <<>>)
           sent == [k \in 1..Len(app.chats) |->
                       IF app.chats[k].id # id THEN app.chats[k]
                       ELSE [app.chats[k] EXCEPT
                                !.messages = Append(@, UserMessage(userText)),
                                !.title = IF @ = NewChatTitle
                                          THEN deriveTitle(userText) ELSE @]]
       IN  /\ app' = setLoading(setImageFile(setInput(setChats(app, sent), <<>>),
                                             Null), TRUE)
           /\ fetches' = Append(fetches,
                                Fetch(IF app.mode = "image" THEN "image" ELSE "chat",
                                      "", id, app.provider, userText))
    /\ UNCHANGED <<localStorage, clock, backend>>

\* the bot message sendMessage appends for what came back
botMessage(f, o) ==
    IF f.kind = "image"
    THEN IF o.kind = "throw" THEN BotMessage(ImageServerErrorText, Undefined)
         ELSE IF ~o.ok \/ Falsy(o.imageBase64)
         THEN BotMessage(Warning \o (IF o.error # <<>> THEN o.error
                                     ELSE ImageFailedText), Undefined)
         ELSE [BotMessage(ImageReadyText, "huggingface") EXCEPT
                  !.imageUrl = o.imageBase64]
    ELSE IF o.kind = "throw" THEN BotMessage(ServerErrorText, Undefined)
         ELSE BotMessage(IF o.reply # <<>> THEN o.reply
                         ELSE IF o.error # <<>> THEN o.error
                         ELSE NoReplyText,
                         IF o.provider # Null THEN o.provider[1] ELSE f.provider)

\* sendMessage from the response on, in image mode and otherwise: the chat
\* is the one whose id the handler read when the message was sent
ReplySettles(k, o) ==
    /\ Settled
    /\ fetches[k].kind \in {"chat", "image"}
    /\ o \in (IF fetches[k].kind = "image" THEN ImageReplies ELSE ChatReplies)
    /\ app' = setLoading(setChats(app, appendTo(app.chats, fetches[k].chatId,
                                                botMessage(fetches[k], o))),
                         FALSE)
    /\ fetches' = Without(fetches, k)
    /\ UNCHANGED <<localStorage, clock, backend>>

\* the page is loaded again: the first render of a new component; the
\* fetches of the old one are gone
Reload ==
    /\ Settled
    /\ app' = InitialState(clock)
    /\ fetches' = <<>>
    /\ UNCHANGED <<localStorage, clock, backend>>

\* Date.now() moves on
ClockTick ==
    /\ Settled
    /\ clock < MaxClock
    /\ clock' = clock + 1
    /\ UNCHANGED <<app, localStorage, fetches, backend>>

----------------------------------------------------------------------------
(* The clock *)

Tick ==
    /\ now < MaxTime
    /\ now' = now + 1
    /\ UNCHANGED <<users, reqs, env, browser>>

----------------------------------------------------------------------------
Init ==
    /\ users = <<>>
    /\ now = 0
    /\ reqs = <<>>
    /\ env = KeyConfigured
    /\ BrowserInit

Next ==
    \/ \E body \in RegisterBodies : RegisterStart(body)
    \/ \E i \in ReqIds : RegisterFindOne(i)
    \/ \E i \in ReqIds : RegisterHash(i)
    \/ \E i \in ReqIds : RegisterCreate(i)
    \/ \E body \in LoginBodies : LoginStart(body)
    \/ \E i \in ReqIds : LoginFindOne(i)
    \/ \E i \in ReqIds : LoginCompare(i)
    \/ Tick

Spec == Init /\ [][Next]_vars

----------------------------------------------------------------------------
(* The protected and the upstream-facing routes, served to a client that has *)
(* registered: the store holds its record and it holds the token it was      *)
(* given.                                                                    *)

RegisteredBody ==
    [EmptyBody EXCEPT !.name = "ann", !.email = "a@x.io", !.password = "pw1"]

RegisteredUser ==
    [id |-> 1, name |-> "ann", email |-> "a@x.io",
     password |-> bcryptHash("pw1", genSalt(1))]

InitGateway ==
    /\ users = <<RegisteredUser>>
    /\ now = 0
    /\ reqs = <<[NewReq("register", NoHeader, RegisteredBody, 0) EXCEPT
                    !.pc = "done",
                    !.hashed = <<RegisteredUser.password>>,
                    !.resp = AuthResp(RegisteredUser,
                                      jwtSign(1, "a@x.io", JWT_SECRET, 0))]>>
    /\ env = KeyConfigured
    /\ BrowserInit

NextGateway ==
    \/ \E hdr \in Headers, body \in ChatBodies : ChatStart(hdr, body)
    \/ \E i \in ReqIds, o \in CompletionOutcomes \cup GeminiOutcomes \cup HfChatOutcomes :
            ChatUpstream(i, o)
    \/ \E hdr \in Headers, body \in ImageBodies : ImageStart(hdr, body)
    \/ \E i \in ReqIds, o \in HfImageOutcomes : ImageUpstream(i, o)
    \/ Tick

SpecGateway == InitGateway /\ [][NextGateway]_vars

----------------------------------------------------------------------------
(* The routes every origin can call: the weather tool and the preflight, on  *)
(* a server started with or without WEATHER_API_KEY.                         *)

InitOpen ==
    /\ users = <<>>
    /\ now = 0
    /\ reqs = <<>>
    /\ env \in {KeyConfigured, KeyMissing}
    /\ BrowserInit

NextOpen ==
    \/ \E origin \in Origins : Preflight(origin)
    \/ \E origin \in Origins, body \in WeatherBodies : WeatherStart(origin, body)
    \/ \E i \in ReqIds, o \in WeatherOutcomes : WeatherUpstream(i, o)

SpecOpen == InitOpen /\ [][NextOpen]_vars

----------------------------------------------------------------------------
(* The sessions of one browser: its user logs in and out, reloads the page   *)
(* and uses the chats; the backend is what the fetches come back with       *)

\* the account used in this browser
Accounts == {"a@x.io"}

FetchIds == 1..Len(fetches)

ChatIds == 1..Len(app.chats)

InitClient ==
    /\ users = <<>>
    /\ now = 0
    /\ reqs = <<>>
    /\ env = KeyConfigured
    /\ BrowserInit

NextClient ==
    \/ RunEffects
    \/ \E email \in Accounts : handleAuthSubmit(email)
    \/ \E k \in FetchIds, ok \in BOOLEAN : AuthSettles(k, ok)
    \/ handleLogout
    \/ handleNewChat
    \/ \E k \in ChatIds : selectChat(k)
    \/ clearCurrentChat
    \/ \E text \in SessionInputs : typeInput(text)
    \/ sendMessage
    \/ \E k \in FetchIds, o \in SessionReplies : ReplySettles(k, o)
    \/ Reload
    \/ ClockTick

SpecClient == InitClient /\ [][NextClient]_vars

----------------------------------------------------------------------------
(* One session, followed in detail: the user has logged in for the first    *)
(* time and writes messages of every kind into the chat, with and without   *)
(* attachment, in chat and in image mode.                                   *)

Modes == {"general", "image"}

InitCompose ==
    /\ users = <<>>
    /\ now = 0
    /\ reqs = <<>>
    /\ env = KeyConfigured
    /\ app = [InitialState(0) EXCEPT
                 !.user = <<AccountOf("a@x.io")>>,
                 !.token = <<TokenOf("a@x.io")>>,
                 !.activeChatId = <<0>>,
                 !.dirty = {}]
    /\ localStorage =
           setItem(setItem(EmptyStorage, UserKey,
                           [user |-> <<AccountOf("a@x.io")>>,
                            token |-> <<TokenOf("a@x.io")>>]),
                   getChatsKey(<<"a@x.io">>), <<createNewChat(0)>>)
    /\ fetches = <<>>
    /\ clock = 0

NextCompose ==
    \/ RunEffects
    \/ \E text \in Inputs : typeInput(text)
    \/ handleImageChange
    \/ \E m \in Modes : selectMode(m)
    \/ sendMessage
    \/ \E k \in FetchIds, o \in ComposeReplies : ReplySettles(k, o)
    \/ clearCurrentChat

SpecCompose == InitCompose /\ [][NextCompose]_vars

----------------------------------------------------------------------------
(* Two users who share one browser: each logs in and out, sends a message   *)
(* of their own and reloads the page.  A user sends what that user typed.   *)

SharedAccounts == {"a@x.io", "b@x.io"}

\* "yo"
Yo ==
    <<"y", "o">>

\* what each of the two users writes
TextOf(email) == IF email = "a@x.io" THEN Hello ELSE Yo

InitShared ==
    /\ users = <<>>
    /\ now = 0
    /\ reqs = <<>>
    /\ env = KeyConfigured
    /\ BrowserInit

NextShared ==
    \/ RunEffects
    \/ \E email \in SharedAccounts : handleAuthSubmit(email)
    \/ \E k \in FetchIds : AuthSettles(k, TRUE)
    \/ handleLogout
    \/ \E email \in SharedAccounts :
          app.user = <<AccountOf(email)>> /\ typeInput(TextOf(email))
    \/ \E email \in SharedAccounts :
          app.user = <<AccountOf(email)>> /\ app.input = TextOf(email) /\ sendMessage
    \/ \E k \in FetchIds, o \in SessionReplies : ReplySettles(k, o)
    \/ Reload
    \/ ClockTick

SpecShared == InitShared /\ [][NextShared]_vars

----------------------------------------------------------------------------
(* Properties of the protected routes (SpecGateway) *)

Reqs(route) == {i \in ReqIds : reqs[i].route = route}

Done(i) == reqs[i].pc = "done"

\* the header carries no Bearer token
NoBearerToken(hdr) == hdr.scheme # "Bearer" \/ hdr.kind = "empty"

\* the signature of a JWT is the server's over the payload it carries
SignedByServer(tok) == tok.sig = Signature(Payload(tok), JWT_SECRET)

\* the header carries a token that verification rejects at time t
FailsVerification(hdr, t) ==
    /\ ~NoBearerToken(hdr)
    /\ \/ hdr.kind # "jwt"
       \/ ~SignedByServer(hdr.tok)
       \/ t >= hdr.tok.exp

C2_ImageRequiresToken ==
    \A i \in Reqs("image") :
        (NoBearerToken(reqs[i].hdr) \/ FailsVerification(reqs[i].hdr, reqs[i].authAt))
            => /\ reqs[i].calls = <<>>
               /\ reqs[i].resp.imageBase64 = ""

\* C5: a chat request presenting a JWT passes authenticate if and only if the
\* token's signature verifies against the server secret and its expiry had not
\* elapsed when it was presented; the expiry of a token the server issued is
\* its issue time plus the fixed duration.
C5_TokenValidIffSignedAndFresh ==
    /\ \A i \in Reqs("chat") :
        reqs[i].hdr.scheme = "Bearer" /\ reqs[i].hdr.kind = "jwt" =>
            (reqs[i].resp.status # 401
                <=> (SignedByServer(reqs[i].hdr.tok)
                        /\ reqs[i].authAt < reqs[i].hdr.tok.exp))
    /\ \A tok \in Issued : tok.exp = tok.iat + JWT_EXPIRES_IN

\* a token the server issued, presented past its expiry and rejected
C5_Witness ==
    \E i \in Reqs("chat") :
        /\ reqs[i].hdr.kind = "jwt" /\ reqs[i].hdr.tok \in Issued
        /\ reqs[i].authAt >= reqs[i].hdr.tok.exp
        /\ reqs[i].resp.status = 401

\* the request passed authMiddleware
Authenticated(i) == reqs[i].resp.status # 401

\* the body supplies a single message or a non-empty message list
Supplies(body) ==
    \/ body.message \notin {Undefined, ""}
    \/ body.messages.kind = "array" /\ body.messages.items # <<>>

\* C8: an authenticated chat request that supplies neither a single message nor
\* a non-empty message list fails with 400 and triggers no provider call; one
\* that supplies at least one of them is never rejected by this validation.
C8_ChatValidation ==
    \A i \in Reqs("chat") :
        Authenticated(i) =>
            IF Supplies(reqs[i].body)
            THEN reqs[i].resp.status # 400 /\ Len(reqs[i].calls) = 1
            ELSE /\ Done(i)
                 /\ reqs[i].resp.status = 400
                 /\ reqs[i].resp.error # ""
                 /\ reqs[i].calls = <<>>

\* an authenticated request with an empty list and an empty message, rejected
C8_Witness ==
    \E i \in Reqs("chat") :
        /\ Authenticated(i)
        /\ reqs[i].body.messages = ArrayOf(<<>>) /\ reqs[i].body.message = ""
        /\ reqs[i].resp.status = 400
        /\ reqs[i].calls = <<>>

TheProviders == {"groq", "gemini", "deepseek", "huggingface"}

\* C9: every successful chat response reports the provider that served the
\* request: one of the four, the requested id when that is one of the four,
\* and groq (with Groq the provider called) when the id is omitted or unknown.
C9_ReportedProviderServed ==
    \A i \in Reqs("chat") :
        LET asked == reqs[i].body.provider
            served == IF asked \in TheProviders THEN asked ELSE "groq"
        IN  /\ \A k \in 1..Len(reqs[i].calls) : reqs[i].calls[k].provider = served
            /\ reqs[i].resp.status = 200 =>
                /\ Len(reqs[i].calls) = 1
                /\ reqs[i].resp.provider = served
                /\ reqs[i].resp.provider \in TheProviders

\* a successful response to a request naming an unknown provider, served by groq
C9_Witness ==
    \E i \in Reqs("chat") :
        /\ reqs[i].body.provider = "unknown-provider"
        /\ reqs[i].resp.status = 200 /\ reqs[i].resp.provider = "groq"
        /\ reqs[i].calls[1].provider = "groq"

\* C10: an upstream failure (the call errors, groq/deepseek return no choices,
\* the HuggingFace endpoint answers with a failure) is surfaced as an error and
\* never as a successful {reply, provider}; one upstream call per request.
C10_UpstreamFailureIsError ==
    \A i \in Reqs("chat") :
        /\ Len(reqs[i].calls) <= 1
        /\ (Done(i) /\ reqs[i].outcome # <<>> /\ UpstreamFailed(reqs[i].outcome[1]))
            => /\ reqs[i].resp.status >= 400
               /\ reqs[i].resp.error # ""
               /\ reqs[i].resp.reply = ""

----------------------------------------------------------------------------
(* Properties of registration and login (Spec) *)

FieldMissing(body) ==
    \E v \in {body.name, body.email, body.password} : v \in {Undefined, ""}

Succeeded(i) == reqs[i].resp.status = 200

\* the record a successful registration created
RecordOf(i) == users[reqs[i].resp.user[1].id]

\* the store held a record with that email among the first n it holds
KnownAmong(email, n) == \E k \in 1..n : k <= Len(users) /\ users[k].email = email

\* the token is accepted by authenticate at every instant of its lifetime
AcceptedWhileFresh(tok) ==
    \A t \in 0..MaxTime :
        (tok.iat <= t /\ t < tok.exp) => authMiddleware(Bearer(tok), t) = NoResp

WrongPassword(i) ==
    /\ reqs[i].found # <<>>
    /\ LET h == reqs[i].found[1].password
       IN  h.digest # Digest(reqs[i].body.password, h.salt, h.cost)

\* C4: login with an unknown email and login with a known email but a wrong
\* password produce the same response, status 400 and the message
\* "Invalid email or password".
C4_LoginFailuresAlike ==
    \A i \in Reqs("login") :
        (Done(i) /\ (reqs[i].found = <<>> \/ WrongPassword(i)))
            => reqs[i].resp = ErrorResp(400, "Invalid email or password")

\* C6: register fails with 400 when name, email or password is missing and
\* with 400 when the email is already registered; a failed registration
\* creates or changes no user record and is given no token.
C6_RegisterFailures ==
    /\ \A i \in Reqs("register") :
        /\ FieldMissing(reqs[i].body)
            => Done(i) /\ reqs[i].resp = ErrorResp(400, "All fields are required")
        /\ ( /\ ~FieldMissing(reqs[i].body)
             /\ reqs[i].pc # "findOne"
             /\ KnownAmong(reqs[i].body.email, reqs[i].saw) )
            => Done(i) /\ reqs[i].resp = ErrorResp(400, "Email already in use")
        /\ reqs[i].resp.status = 400
            => /\ reqs[i].resp.token = <<>>
               /\ reqs[i].resp.user = <<>>
               /\ reqs[i].hashed = <<>>
        /\ Succeeded(i)
            => RecordOf(i) = [id |-> reqs[i].resp.user[1].id,
                              name |-> reqs[i].body.name,
                              email |-> reqs[i].body.email,
                              password |-> reqs[i].hashed[1]]
    /\ Len(users) = Cardinality({i \in Reqs("register") : Succeeded(i)})

\* a registration refused for its email, with the store holding the one record
\* of the registration that came first
C6_Witness ==
    /\ Len(users) = 1
    /\ \E i \in Reqs("register") :
        reqs[i].resp = ErrorResp(400, "Email already in use")

\* C7: the user store never holds two records with the same email, and at most
\* one of several registrations of one email returns a token.
C7_EmailsUnique ==
    /\ \A k, l \in 1..Len(users) : users[k].email = users[l].email => k = l
    /\ \A i, j \in Reqs("register") :
        ( /\ reqs[i].resp.token # <<>> /\ reqs[j].resp.token # <<>>
          /\ reqs[i].body.email = reqs[j].body.email ) => i = j

----------------------------------------------------------------------------
(* Properties of the open routes (SpecOpen) *)

\* the city of the body is missing, empty or only whitespace
BlankCity(body) == body.city \in {Undefined, "", "  "}

\* C11: a weather request whose city is missing, empty or only whitespace is
\* answered 400 "City is required" without any upstream call, also on a server
\* whose API key is not configured (the city is checked first); and no request
\* answered so has made an upstream call.
C11_BlankCityRejectedFirst ==
    \A i \in Reqs("weather") :
        /\ BlankCity(reqs[i].body)
            => /\ Done(i)
               /\ reqs[i].resp = ErrorResp(400, "City is required")
               /\ reqs[i].calls = <<>>
        /\ reqs[i].resp.error = "City is required" => reqs[i].calls = <<>>

\* a server without the key has rejected a whitespace city with 400, and has
\* answered a request that names a city with the configuration error
C11_Witness ==
    /\ env = KeyMissing
    /\ \E i, j \in Reqs("weather") :
        /\ reqs[i].body.city = "  "
        /\ reqs[i].resp.status = 400
        /\ reqs[j].body.city = "Colombo"
        /\ reqs[j].resp.status = 500

\* the host of an origin: what stands between "://" and the port
HostOf(origin) ==
    LET sep  == indexOf(origin, <<":", "/", "/">>)
        rest == IF sep = 0 THEN origin ELSE SubSeq(origin, sep + 3, Len(origin))
        port == indexOf(rest, <<":">>)
    IN  IF port = 0 THEN rest ELSE SubSeq(rest, 1, port - 1)

IsLocalhostOrigin(origin) == HostOf(origin) = <<"l", "o", "c", "a", "l", "h", "o", "s", "t">>

IsUnderNetlify(origin) == endsWith(HostOf(origin), NetlifySuffix)

\* C12: the response carries Access-Control-Allow-Origin exactly when the
\* request's Origin is in the allow-list, is a localhost origin or is a host
\* under .netlify.app; for every other origin, such as
\* http://localhost.example.com, the header is not set.
C12_CorsExactlyForAllowed ==
    \A i \in ReqIds :
        reqs[i].allowOrigin # NoOrigin
            <=> /\ reqs[i].origin # NoOrigin
                /\ \/ includes(allowedOrigins, reqs[i].origin)
                   \/ IsLocalhostOrigin(reqs[i].origin)
                   \/ IsUnderNetlify(reqs[i].origin)

----------------------------------------------------------------------------
(* Properties of the client (SpecCompose, SpecClient) *)

\* the position of the chat that is rendered as the active one
ActiveIndex(a) ==
    LET same == {k \in 1..Len(a.chats) :
                    a.activeChatId # Null /\ a.chats[k].id = a.activeChatId[1]}
    IN  IF same # {} THEN CHOOSE k \in same : \A j \in same : k <= j ELSE 1

\* the chat holds no message of the user
NoneSent(chat) == \A m \in 1..Len(chat.messages) : chat.messages[m].sender # "user"

\* C13: a send appends the user's message to the active chat, and the title
\* of that chat becomes the title derived from the message (whitespace
\* collapsed and trimmed, the first 40 characters and an ellipsis when longer,
\* whole otherwise) if and only if the chat held no user message before; a
\* later user message leaves the title as it was.
C13_TitleFromFirstMessageOnly ==
    [][sendMessage =>
        LET before == app.chats[ActiveIndex(app)]
            after  == app'.chats[ActiveIndex(app)]
            sent   == after.messages[Len(after.messages)]
        IN  /\ Len(after.messages) = Len(before.messages) + 1
            /\ SubSeq(after.messages, 1, Len(before.messages)) = before.messages
            /\ sent.sender = "user"
            /\ NoneSent(before) => after.title = deriveTitle(sent.text)
            /\ ~NoneSent(before) => after.title = before.title]_vars

\* C14: clearCurrentChat leaves the active chat with the greeting as its only
\* message and with the title "New chat", whatever it held; the chat keeps its
\* id and its place, no chat is removed, and every other chat of the
\* collection is as it was.
C14_ClearResetsOnlyActiveChat ==
    [][clearCurrentChat =>
        LET j == ActiveIndex(app)
        IN  /\ Len(app'.chats) = Len(app.chats)
            /\ app'.chats[j] = [app.chats[j] EXCEPT
                                   !.title = NewChatTitle,
                                   !.messages = <<BotMessage(Greeting, "groq")>>]
            /\ \A i \in 1..Len(app.chats) : i # j => app'.chats[i] = app.chats[i]]_vars

\* C15: newChat appends exactly one fresh chat (title "New chat", the greeting
\* as its only message) at the end of the collection and makes it the active
\* chat; the chats that were there keep place, title and messages, and the
\* pending input and attachment are cleared.
C15_NewChatAppendedAndActive ==
    [][handleNewChat =>
        LET n == Len(app.chats)
        IN  /\ Len(app'.chats) = n + 1
            /\ SubSeq(app'.chats, 1, n) = app.chats
            /\ app'.chats[n + 1].title = NewChatTitle
            /\ app'.chats[n + 1].messages = <<BotMessage(Greeting, "groq")>>
            /\ ActiveIndex(app') = n + 1
            /\ app'.input = <<>>
            /\ app'.imageFile = Null]_vars

\* any answer to a chat or image request
Replies == ChatReplies \cup ImageReplies

\* no two chats of the collection have the same id
DistinctIds(chats) ==
    \A a, b \in 1..Len(chats) : a # b => chats[a].id # chats[b].id

\* C16 as claimed: when the reply (or error) of a request arrives, the bot
\* message is appended to the chat that is active at that moment, also when
\* the user selected another chat or created one while the request was in
\* flight.
C16_ReplyToActiveChat ==
    [][\A k \in FetchIds, o \in Replies :
        ReplySettles(k, o) =>
            LET j == ActiveIndex(app)
            IN  app'.chats[j].messages =
                    Append(app.chats[j].messages, botMessage(fetches[k], o))]_vars

\* C16 as amended: when the reply (or error) of a request arrives, the bot
\* message is appended to every chat of the collection that carries the id of
\* the chat that was active when the message was sent, whichever chat is
\* active now, and no other chat changes; when no chat carries that id any
\* more, the message is dropped.
C16_ReplyToChatOfRequest ==
    [][\A k \in FetchIds, o \in Replies :
        ReplySettles(k, o) =>
            /\ Len(app'.chats) = Len(app.chats)
            /\ \A j \in 1..Len(app.chats) :
                app'.chats[j] =
                    IF app.chats[j].id = fetches[k].chatId
                    THEN [app.chats[j] EXCEPT
                             !.messages = Append(@, botMessage(fetches[k], o))]
                    ELSE app.chats[j]]_vars

\* a reply has just arrived while the second chat was the active one and the
\* user was typing there, and it went to the first chat, where the message
\* had been sent
C16_Witness ==
    /\ app.dirty = {"chats"} /\ ~app.loading /\ app.input # <<>>
    /\ fetches = <<>>
    /\ Len(app.chats) = 2 /\ DistinctIds(app.chats)
    /\ ActiveIndex(app) = 2
    /\ app.chats[2].messages = <<BotMessage(Greeting, "groq")>>
    /\ Len(app.chats[1].messages) = 3
    /\ app.chats[1].messages[2].sender = "user"
    /\ app.chats[1].messages[3] = BotMessage(ReplyText, "groq")

\* the storage key of the current user's chats, the guest key when nobody
\* is logged in
CurrentKey(a) ==
    IF a.user = Null THEN getChatsKey(Null)
    ELSE getChatsKey(<<a.user[1].email>>)

\* C17: whenever a transition of the client has completed (the effects of the
\* last change have run), the snapshot stored under the key of the current
\* user's email, or under the guest key when nobody is logged in, equals the
\* chat collection in memory.
C17_SnapshotEqualsMemory ==
    Settled =>
        /\ localStorage[CurrentKey(app)] # Null
        /\ parse(localStorage[CurrentKey(app)][1]) = app.chats

\* C18: logout leaves the chats stored for that email as they are, and they
\* are the collection the user has at logout; a later login of the same user
\* brings back that collection, with the replies that were in flight at
\* logout: the same chats in the same order with the same titles and
\* messages.  (While nobody is logged in, a collection in memory that holds a
\* message of the user is the one the user had at logout, with the replies
\* that arrived since.)
C18_ReloginRestoresCollection ==
    [][/\ handleLogout =>
            /\ localStorage'[CurrentKey(app)] = localStorage[CurrentKey(app)]
            /\ localStorage[CurrentKey(app)] = <<stringify(app.chats)>>
       /\ \A k \in FetchIds :
            (AuthSettles(k, TRUE) /\ sentIn(app.chats) > 0) =>
                app'.chats = app.chats]_vars

\* the chats that are rendered as active: those with the id of the active chat
ActiveChats(a) == {j \in 1..Len(a.chats) : a.chats[j].id = activeChat(a).id}

\* the step changes no chat but the one at position j
OnlyChanged(j) ==
    /\ Len(app'.chats) = Len(app.chats)
    /\ app'.chats[j] # app.chats[j]
    /\ \A i \in 1..Len(app.chats) : i # j => app'.chats[i] = app.chats[i]

\* C19: in every state exactly one chat of the collection is the active
\* chat, the first chat when the stored active id matches none; and a send, a
\* clear and the append of a reply act on that chat and on no other.
C19_ExactlyOneActiveChat ==
    /\ [](/\ Cardinality(ActiveChats(app)) = 1
          /\ (\A j \in 1..Len(app.chats) :
                 app.activeChatId # <<app.chats[j].id>>) => ActiveChats(app) = {1})
    /\ [][/\ sendMessage => OnlyChanged(ActiveIndex(app))
          /\ clearCurrentChat /\ app'.chats # app.chats => OnlyChanged(ActiveIndex(app))
          /\ \A k \in FetchIds, o \in Replies :
                ReplySettles(k, o) => OnlyChanged(ActiveIndex(app))]_vars

\* s is the beginning of t
IsPrefix(s, t) == Len(s) <= Len(t) /\ SubSeq(t, 1, Len(s)) = s

\* the steps that load a collection: a login, the effects (which load the
\* chats of the user that has changed), and a reload of the page, which
\* starts from a new component
LoadsCollection ==
    \/ \E k \in FetchIds : AuthSettles(k, TRUE)
    \/ RunEffects
    \/ Reload

\* C20: messages stay as they were appended and in the order of the appends:
\* in every step other than clearCurrentChat and the loading of a collection,
\* every chat is still in its place and its messages before the step are the
\* beginning of its messages after the step.
C20_MessagesOnlyAppended ==
    [][~clearCurrentChat /\ ~LoadsCollection =>
        /\ Len(app'.chats) >= Len(app.chats)
        /\ \A j \in 1..Len(app.chats) :
            /\ app'.chats[j].id = app.chats[j].id
            /\ IsPrefix(app.chats[j].messages, app'.chats[j].messages)]_vars

\* a chat holds two messages of the user, each followed by its reply, after
\* the greeting
C20_Witness ==
    \E j \in 1..Len(app.chats) :
        LET ms == app.chats[j].messages
        IN  /\ Len(ms) = 5
            /\ ms[1] = BotMessage(Greeting, "groq")
            /\ ms[2] = UserMessage(Hello) /\ ms[3] = BotMessage(ReplyText, "groq")
            /\ ms[4] = UserMessage(Hello) /\ ms[5] = BotMessage(ReplyText, "groq")

\* the chat holds the message the request was sent for
Recorded(chat, f) ==
    \E m \in 1..Len(chat.messages) : chat.messages[m] = UserMessage(f.userText)

\* C21: a send is never left half done: when its request completes, by a
\* reply, an HTTP error or a network failure, the message of the user is still
\* recorded in its chat, exactly one bot message (the reply or a visible
\* error) is appended to that chat after it, and loading is false again.
C21_SendNeverHalfDone ==
    [][\A k \in FetchIds, o \in Replies :
        ReplySettles(k, o) =>
            /\ ~app'.loading
            /\ \E j \in 1..Len(app.chats) :
                /\ app.chats[j].id = fetches[k].chatId
                /\ Recorded(app.chats[j], fetches[k])
                /\ Recorded(app'.chats[j], fetches[k])
                /\ Len(app'.chats[j].messages) = Len(app.chats[j].messages) + 1
                /\ IsPrefix(app.chats[j].messages, app'.chats[j].messages)
                /\ app'.chats[j].messages[Len(app'.chats[j].messages)].sender = "bot"]_vars

\* C22: chat ids are unique: in every state, after any sequence of new chats,
\* logins and reloads, no two chats of the collection have the same id.
C22_ChatIdsUnique ==
    \A a, b \in 1..Len(app.chats) :
        app.chats[a].id = app.chats[b].id => a = b

\* the chat and image requests of the client that are in flight
Outstanding == {k \in 1..Len(fetches) : fetches[k].kind \in {"chat", "image"}}

\* C23: at most one chat or image request of the client is outstanding at any
\* time, whatever the user does while it is in flight (select another chat,
\* new chat, clear, logout and login): a send adds a request, so a further
\* submit during a request has no effect.
C23_OneRequestOutstanding == Cardinality(Outstanding) <= 1

\* a request is in flight, the user has moved to another chat and typed the
\* next message there, and nothing but loading keeps the send from going out
C23_Witness ==
    /\ Cardinality(Outstanding) = 1
    /\ Settled /\ ~authScreen(app)
    /\ trim(app.input) # <<>>
    /\ sentIn(app.chats) < MaxSent
    /\ Len(app.chats) = 2
    /\ \E k \in Outstanding : fetches[k].chatId # activeChat(app).id

\* the collection holds a message written by the user with this email
HoldsTextOf(chats, email) ==
    \E j \in 1..Len(chats) : \E m \in 1..Len(chats[j].messages) :
        chats[j].messages[m] = UserMessage(TextOf(email))

\* the collection is a single chat with nothing but the greeting
IsPlaceholder(chats) ==
    Len(chats) = 1 /\ chats[1].messages = <<BotMessage(Greeting, "groq")>>

\* what is stored under the chats key of the email, <<>> when nothing is
StoredChats(storage, email) ==
    IF storage[getChatsKey(<<email>>)] = Null THEN <<>>
    ELSE parse(storage[getChatsKey(<<email>>)][1])

\* C24: the collections of two users of one browser stay apart.  While a user
\* is logged in, the collection in memory holds no message of the other user,
\* and the snapshot stored for a user never does; a reply to a request of the
\* other user changes nothing in the collection of the user who is logged in;
\* and a snapshot that is stored for a user is never replaced by the
\* placeholder chat.
C24_CollectionsIsolated ==
    /\ [](\A e, other \in SharedAccounts :
            e # other =>
                /\ app.user = <<AccountOf(e)>> => ~HoldsTextOf(app.chats, other)
                /\ ~HoldsTextOf(StoredChats(localStorage, e), other))
    /\ [][/\ \A k \in FetchIds, o \in Replies :
                (/\ ReplySettles(k, o)
                 /\ app.user # Null
                 /\ fetches[k].userText # TextOf(app.user[1].email))
                    => app'.chats = app.chats
          /\ \A e \in SharedAccounts :
                (/\ StoredChats(localStorage, e) # <<>>
                 /\ StoredChats(localStorage', e) # StoredChats(localStorage, e))
                    => ~IsPlaceholder(StoredChats(localStorage', e))]_vars

====
